---- MODULE Spec2Model ----
(***************************************************************************)
(* A model of find_system_data.py: the catalog scan                        *)
(* (scan_system_data_locations / get_directory_size), the report           *)
(* (print_results_table), the subdirectory scan (find_large_directories),  *)
(* the snapshot check and the top-level handlers of the script.            *)
(*                                                                         *)
(* Strings are sequences of one-character strings.  The external           *)
(* utilities (du, find, tmutil) and the filesystem are the environment:    *)
(* their results are chosen nondeterministically where the code calls      *)
(* them.  Path.exists() answers TRUE or FALSE from the filesystem as it is  *)
(* at the moment of the call.                                              *)
(***************************************************************************)
EXTENDS Integers, Sequences, FiniteSets, TLC

VARIABLES
    platform,      \* sys.platform
    catalog,       \* system_locations: <<[path_str, description, requires_sudo]>>
    path_exists,   \* the path of catalog entry idx exists right now
    pc,            \* position of the script
    idx,           \* index of the catalog entry the for loop of line 116 is at
    du_result,     \* CompletedProcess / exception of the last du call, or NoDu
    probe_ret,     \* outcome of the last get_directory_size call, or NoCall
    locations,     \* the list built by the scan, sorted in place by the report
    rows,          \* the table rows printed by print_results_table
    total_size,    \* total_size of print_results_table, -1 before the report
    reported,      \* print_results_table was called
    key,           \* index of the key location the loop of line 240 is at
    subdir_lines,  \* the "top 10" lines printed for the last key location
    snapshots,     \* number of snapshots announced, -1 before the check
    exc,           \* exception propagating to the top level, or "none"
    exit_code,     \* process exit status, -1 while running
    notice,        \* the "Operation cancelled by user" notice was printed
    interrupted,   \* a KeyboardInterrupt was delivered
    probeLog,      \* catalog indexes get_directory_size was called for, in order
    scanLog,       \* per probed entry: what happened at lines 34-38 and 120-129
    root,          \* find_large_directories: root_path and its tree
    min_size,      \* find_large_directories: min_size_gb, in half gigabytes
    find_result,   \* find_large_directories: CompletedProcess / exception of find
    large_dirs     \* find_large_directories: the list it builds and returns

vars == <<platform, catalog, path_exists, pc, idx, du_result, probe_ret,
          locations, rows, total_size, reported, key, subdir_lines, snapshots,
          exc, exit_code, notice, interrupted, probeLog, scanLog,
          root, min_size, find_result, large_dirs>>

findVars == <<root, min_size, find_result, large_dirs>>

----------------------------------------------------------------------------
(* Bounds of the model *)

MaxCatalog == 2      \* longest catalog explored
MaxKB == 2           \* largest kilobyte count du reports in the scan
MaxRows == 2         \* longest list handed to print_results_table on its own
MaxSnapshots == 1    \* most snapshot lines tmutil prints

----------------------------------------------------------------------------
(* Strings *)

RECURSIVE Repeat(_, _)
Repeat(c, n) == IF n <= 0 THEN <<>> ELSE <<c>> \o Repeat(c, n - 1)

Max(a, b) == IF a >= b THEN a ELSE b
Min(a, b) == IF a <= b THEN a ELSE b

Digits == <<"0", "1", "2", "3", "4", "5", "6", "7", "8", "9">>

DigitValue(c) == (CHOOSE d \in 1..10 : Digits[d] = c) - 1

IsDigit(c) == \E d \in 1..10 : Digits[d] = c

\* str(n) for n >= 0: what du prints as its leading field
RECURSIVE Numeral(_)
Numeral(n) == IF n < 10 THEN <<Digits[n + 1]>>
              ELSE Numeral(n \div 10) \o <<Digits[(n % 10) + 1]>>

\* s.split(sep) for a one-character separator: the fields between separators
RECURSIVE SplitOn(_, _, _)
SplitOn(s, sep, cur) ==
    IF s = <<>> THEN <<cur>>
    ELSE IF Head(s) = sep THEN <<cur>> \o SplitOn(Tail(s), sep, <<>>)
    ELSE SplitOn(Tail(s), sep, Append(cur, Head(s)))

Split(s, sep) == SplitOn(s, sep, <<>>)

Whitespace == {" ", "\t", "\n"}

\* s.split(): the maximal runs of non-whitespace characters
RECURSIVE SplitWhitespace(_, _)
SplitWhitespace(s, cur) ==
    IF s = <<>> THEN (IF cur = <<>> THEN <<>> ELSE <<cur>>)
    ELSE IF Head(s) \in Whitespace
         THEN (IF cur = <<>> THEN <<>> ELSE <<cur>>) \o SplitWhitespace(Tail(s), <<>>)
    ELSE SplitWhitespace(Tail(s), Append(cur, Head(s)))

\* int(s) accepts a non-empty run of digits (the only integers du prints)
IsIntLiteral(s) == s # <<>> /\ \A i \in 1..Len(s) : IsDigit(s[i])

RECURSIVE ParseInt(_)
ParseInt(s) == IF s = <<>> THEN 0
               ELSE ParseInt(SubSeq(s, 1, Len(s) - 1)) * 10 + DigitValue(s[Len(s)])

----------------------------------------------------------------------------
(* Exceptions: the classes the script can meet and its except clauses *)

NoExc == "none"

ParentClass(e) ==
    CASE e = "KeyboardInterrupt" -> "BaseException"
      [] e = "SystemExit"        -> "BaseException"
      [] e = "Exception"         -> "BaseException"
      [] e = "LookupError"       -> "Exception"
      [] e = "IndexError"        -> "LookupError"
      [] e = "ValueError"        -> "Exception"
      [] e = "OSError"           -> "Exception"
      [] e = "PermissionError"   -> "OSError"
      [] e = "FileNotFoundError" -> "OSError"
      [] e = "SubprocessError"   -> "Exception"
      [] e = "TimeoutExpired"    -> "SubprocessError"
      [] OTHER                   -> "BaseException"

RECURSIVE IsSubclass(_, _)
IsSubclass(e, c) ==
    IF e = c THEN TRUE
    ELSE IF e = "BaseException" THEN FALSE
    ELSE IsSubclass(ParentClass(e), c)

\* "except (A, B, ...)" catches e iff e is an instance of one of the classes
Caught(e, classes) == \E c \in classes : IsSubclass(e, c)

\* line 50
DuExcept == {"TimeoutExpired", "ValueError", "PermissionError", "OSError"}

\* line 162
FindExcept == {"TimeoutExpired", "ValueError", "PermissionError", "OSError"}

\* line 270
SnapExcept == {"TimeoutExpired", "FileNotFoundError", "PermissionError"}

----------------------------------------------------------------------------
(* Outcomes of a call: a returned value or a raised exception *)

NoCall == [kind |-> "none"]
NoDu == [kind |-> "none"]

Completed(rc, out) == [kind |-> "completed", returncode |-> rc, stdout |-> out]
Raised(e) == [kind |-> "raised", exc |-> e]

Return(size, ok) == [kind |-> "return", size_bytes |-> size, success |-> ok]
Raise(e) == [kind |-> "raise", exc |-> e]
Returns(v) == [kind |-> "return", value |-> v]

----------------------------------------------------------------------------
(* get_directory_size *)

\* One line of du -sk: "<kilobytes>\t<path>\n"
DuLine(kb, path) == Numeral(kb) \o <<"\t">> \o path \o <<"\n">>

\* What subprocess.run(['du', '-sk', path], timeout=300) can give back
DuResults(path) ==
    {Completed(0, DuLine(kb, path)) : kb \in 0..MaxKB}
    \cup {Completed(0, <<>>),
          Completed(0, <<"?", "\t">> \o path \o <<"\n">>),
          Completed(1, <<>>),
          Completed(1, DuLine(1, path))}
    \cup {Raised(e) : e \in {"TimeoutExpired", "PermissionError",
                             "FileNotFoundError", "OSError"}}

\* lines 45-49: the body of the try after subprocess.run returned
DuParse(result) ==
    IF result.returncode = 0
    THEN LET fields == SplitWhitespace(result.stdout, <<>>) IN
         IF fields = <<>> THEN Raise("IndexError")
         ELSE IF ~IsIntLiteral(fields[1]) THEN Raise("ValueError")
         ELSE Return(ParseInt(fields[1]) * 1024, TRUE)
    ELSE Return(0, FALSE)

\* lines 38-49: the try body from the du call on
DuTry(result) ==
    IF result.kind = "raised" THEN Raise(result.exc) ELSE DuParse(result)

\* DuHandle with a bare "except:" in place of the tuple of line 50
DuHandleBareExcept(outcome) ==
    IF outcome.kind = "raise" /\ Caught(outcome.exc, {"BaseException"})
    THEN Return(0, FALSE)
    ELSE outcome

\* lines 50-51: the except clause around the try body
DuHandle(outcome) ==
    IF outcome.kind = "raise" /\ Caught(outcome.exc, DuExcept)
    THEN Return(0, FALSE)
    ELSE outcome

\* lines 33-51 for a path that line 34 found to exist
GetDirectorySize(result) == DuHandle(DuTry(result))

----------------------------------------------------------------------------
(* print_results_table *)

PathWidthMin == 60
PathWidthMax == 80
DescWidthMin == 35
DescWidthMax == 50

Location(path, desc, size, sudo) ==
    [path_str |-> path, description |-> desc, size_bytes |-> size,
     requires_sudo |-> sudo]

\* InsertDesc placing an element before the elements of equal size, as sorting
\* ascending and reversing the list would
RECURSIVE InsertDescUnstable(_, _)
InsertDescUnstable(sorted, e) ==
    IF sorted = <<>> THEN <<e>>
    ELSE IF Head(sorted).size_bytes > e.size_bytes
         THEN <<Head(sorted)>> \o InsertDescUnstable(Tail(sorted), e)
    ELSE <<e>> \o sorted

\* line 174: list.sort(key=size, reverse=True) is stable: an element goes after
\* every element whose size is not smaller, equal sizes keep their order
RECURSIVE InsertDesc(_, _)
InsertDesc(sorted, e) ==
    IF sorted = <<>> THEN <<e>>
    ELSE IF Head(sorted).size_bytes >= e.size_bytes
         THEN <<Head(sorted)>> \o InsertDesc(Tail(sorted), e)
    ELSE <<e>> \o sorted

RECURSIVE SortBySizeDesc(_)
SortBySizeDesc(list) ==
    IF list = <<>> THEN <<>>
    ELSE InsertDesc(SortBySizeDesc(SubSeq(list, 1, Len(list) - 1)), list[Len(list)])

RECURSIVE MaxOf(_)
MaxOf(ns) == IF ns = <<>> THEN 0 ELSE Max(Head(ns), MaxOf(Tail(ns)))

\* lines 177, 180
PathWidth(locs) ==
    LET max_path_len == MaxOf([i \in 1..Len(locs) |-> Len(locs[i].path_str)])
    IN  Max(PathWidthMin, Min(max_path_len + 2, PathWidthMax))

\* lines 178, 181
DescWidth(locs) ==
    LET max_desc_len == MaxOf([i \in 1..Len(locs) |-> Len(locs[i].description)])
    IN  Max(DescWidthMin, Min(max_desc_len + 2, DescWidthMax))

\* s[-n:] for 0 < n
LastChars(s, n) == IF n >= Len(s) THEN s ELSE SubSeq(s, Len(s) - n + 1, Len(s))

\* DisplayPath cutting at the column width and filling the whole column
DisplayPathFullWidth(path, path_width) ==
    IF Len(path) <= path_width THEN path
    ELSE <<".", ".", ".">> \o LastChars(path, path_width - 3)

\* line 196
DisplayPath(path, path_width) ==
    IF Len(path) <= path_width - 2 THEN path
    ELSE <<".", ".", ".">> \o LastChars(path, path_width - 5)

\* f"{s:<{w}}": s left-aligned in a field of w characters, never cut
LeftAlign(s, w) == s \o Repeat(" ", w - Len(s))

\* PermText looking at the size alone
PermTextAnyZero(requires_sudo, size_bytes) ==
    IF size_bytes = 0 THEN "sudo needed" ELSE "user access"

\* line 198
PermText(requires_sudo, size_bytes) ==
    IF requires_sudo /\ size_bytes = 0 THEN "sudo needed" ELSE "user access"

\* bytes_to_gb (line 55) followed by the ".2f" format: the number of hundredths
\* of a gigabyte printed, size_bytes * 100 / 2^30 rounded to nearest, ties to
\* even.  The product is taken in base 2^14 digits to stay within 32 bits.
GbHundredths(size_bytes) ==
    LET K == 16384
        h == size_bytes \div (K * K)
        a == (size_bytes % (K * K)) \div K
        b == size_bytes % K
        t == 25 * a + ((25 * b) \div K)
        whole == 25 * h + (t \div K)
        rem == (t % K) * K + ((25 * b) % K)
        half == (K * K) \div 2
    IN  IF rem > half \/ (rem = half /\ whole % 2 = 1) THEN whole + 1 ELSE whole

\* lines 191-202: the row printed for one element of the sorted list
Row(loc, path_width, desc_width) ==
    LET display_path == DisplayPath(loc.path_str, path_width) IN
    [display_path |-> display_path,
     path_cell    |-> LeftAlign(display_path, path_width),
     desc_cell    |-> LeftAlign(loc.description, desc_width),
     size_bytes   |-> loc.size_bytes,
     size_gb      |-> GbHundredths(loc.size_bytes),
     perm_text    |-> PermText(loc.requires_sudo, loc.size_bytes)]

\* lines 176-202 on the sorted list
TableRows(sorted) ==
    [i \in 1..Len(sorted) |-> Row(sorted[i], PathWidth(sorted), DescWidth(sorted))]

RECURSIVE SumSizes(_)
SumSizes(locs) ==
    IF locs = <<>> THEN 0 ELSE Head(locs).size_bytes + SumSizes(Tail(locs))

----------------------------------------------------------------------------
(* find_large_directories *)

\* A directory tree is the sequence of its nodes in the order find visits
\* them; rel is the node's path below the root (<<>> for the root itself), kb
\* the kilobytes the node itself and the plain files directly in it occupy.
Node(rel, type, kb) == [rel |-> rel, type |-> type, kb |-> kb]

IsPrefix(p, q) == Len(p) <= Len(q) /\ SubSeq(q, 1, Len(p)) = p

RECURSIVE JoinPath(_, _)
JoinPath(base, rel) ==
    IF rel = <<>> THEN base
    ELSE JoinPath(base \o <<"/">> \o Head(rel), Tail(rel))

\* du -sk of a node: everything at or below it
RECURSIVE DuSk(_, _)
DuSk(tree, rel) ==
    IF tree = <<>> THEN 0
    ELSE (IF IsPrefix(rel, Head(tree).rel) THEN Head(tree).kb ELSE 0)
         + DuSk(Tail(tree), rel)

\* line 144: find <root> -maxdepth 1 -type d visits the starting point (depth 0)
\* and what is directly in it (depth 1), and keeps the directories
FindMaxDepth == 1

FindSelected(node) == Len(node.rel) <= FindMaxDepth /\ node.type = "d"

\* line 144: -exec du -sk {} ; prints one du line per selected node
RECURSIVE FindStdout(_, _, _)
FindStdout(tree, rest, base) ==
    IF rest = <<>> THEN <<>>
    ELSE (IF FindSelected(Head(rest))
          THEN DuLine(DuSk(tree, Head(rest).rel), JoinPath(base, Head(rest).rel))
          ELSE <<>>)
         \o FindStdout(tree, Tail(rest), base)

\* What subprocess.run(['find', ...], timeout=300) can give back
FindResults(tree, base) ==
    {Completed(0, FindStdout(tree, tree, base)),
     Completed(1, FindStdout(tree, tree, base)),
     Raised("TimeoutExpired"), Raised("FileNotFoundError")}

\* s.strip()
RECURSIVE StripLeft(_)
StripLeft(s) ==
    IF s # <<>> /\ Head(s) \in Whitespace THEN StripLeft(Tail(s)) ELSE s

RECURSIVE StripRight(_)
StripRight(s) ==
    IF s # <<>> /\ s[Len(s)] \in Whitespace
    THEN StripRight(SubSeq(s, 1, Len(s) - 1)) ELSE s

Strip(s) == StripRight(StripLeft(s))

\* line 160 for min_size_gb = min_half / 2: size_kb * 1024 / 2^30 >= min_half / 2
AtLeastMinSize(size_kb, min_half) == size_kb >= min_half * (512 * 1024)

\* lines 151-161: the loop over the output lines; a ValueError of int() leaves
\* the loop and keeps what was appended so far (lines 162-165)
RECURSIVE ParseFindLines(_, _, _)
ParseFindLines(lines, min_half, acc) ==
    IF lines = <<>> THEN acc
    ELSE LET line == Head(lines)
             parts == Split(line, "\t")
         IN  IF line = <<>> \/ Len(parts) # 2
             THEN ParseFindLines(Tail(lines), min_half, acc)
             ELSE IF ~IsIntLiteral(parts[1]) THEN acc
             ELSE LET size_kb == ParseInt(parts[1]) IN
                  IF size_kb > 0 /\ AtLeastMinSize(size_kb, min_half)
                  THEN ParseFindLines(Tail(lines), min_half,
                           Append(acc, [dir_path |-> parts[2],
                                        size_bytes |-> size_kb * 1024]))
                  ELSE ParseFindLines(Tail(lines), min_half, acc)

\* lines 143-165 once line 139 found the root to be a directory
FindParse(result, min_half) ==
    IF result.kind = "raised"
    THEN (IF Caught(result.exc, FindExcept) THEN Returns(<<>>)
          ELSE Raise(result.exc))
    ELSE IF result.returncode = 0
         THEN Returns(ParseFindLines(Split(Strip(result.stdout), "\n"), min_half, <<>>))
    ELSE Returns(<<>>)

\* lines 136-165
FindLargeDirectories(rt, min_half, result) ==
    IF ~rt.exists \/ ~rt.is_dir THEN Returns(<<>>) ELSE FindParse(result, min_half)

----------------------------------------------------------------------------
(* The environment the runs are explored in *)

Letters == <<"a", "b", "c", "d", "e", "f", "g", "h">>

\* Catalog entry i of a run: a short path, a one-letter label
Entry(i, sudo) ==
    [path_str |-> <<"/", Letters[i]>>, description |-> <<Letters[i]>>,
     requires_sudo |-> sudo]

Catalogs ==
    UNION {{[i \in 1..n |-> Entry(i, flags[i])] : flags \in [1..n -> BOOLEAN]}
           : n \in 0..MaxCatalog}

\* the catalog index of a record or row label
EntryOf(desc) == CHOOSE i \in 1..Len(Letters) : <<Letters[i]>> = desc

QuarterGB == 256 * 1024     \* kilobytes
HalfGB == 512 * 1024        \* kilobytes

\* What can be at one name directly below a root: nothing, a plain file, a
\* directory, a directory with a subdirectory
ChildChoices(nm) ==
    {<<>>}
    \cup {<<Node(<<nm>>, t, kb)>> : t \in {"f", "d"}, kb \in {0, QuarterGB, HalfGB}}
    \cup {<<Node(<<nm>>, "d", kb), Node(<<nm, <<"s">>>>, "d", QuarterGB)>>
          : kb \in {0, QuarterGB, HalfGB}}

Trees ==
    {<<Node(<<>>, "d", 0)>> \o ca \o cb :
        ca \in ChildChoices(<<"a">>), cb \in ChildChoices(<<"b">>)}

RootPath == <<"/", "L">>

Roots ==
    {[path |-> RootPath, exists |-> TRUE, is_dir |-> TRUE, tree |-> t] : t \in Trees}
    \cup {[path |-> RootPath, exists |-> e, is_dir |-> FALSE, tree |-> <<>>]
          : e \in BOOLEAN}

\* lines 234-238: the key locations, and what main can find at one of them
KeyLocations == 3

KeyRoots ==
    {[path |-> RootPath, exists |-> FALSE, is_dir |-> FALSE, tree |-> <<>>],
     [path |-> RootPath, exists |-> TRUE, is_dir |-> TRUE,
      tree |-> <<Node(<<>>, "d", 0), Node(<<<<"a">>>>, "d", HalfGB)>>]}

NoRoot == [path |-> <<>>, exists |-> FALSE, is_dir |-> FALSE, tree |-> <<>>]

----------------------------------------------------------------------------
(* The snapshot check *)

SnapshotPrefix ==
    <<"c", "o", "m", ".", "a", "p", "p", "l", "e", ".",
      "T", "i", "m", "e", "M", "a", "c", "h", "i", "n", "e">>

StartsWith(s, prefix) == Len(s) >= Len(prefix) /\ SubSeq(s, 1, Len(prefix)) = prefix

\* tmutil listlocalsnapshots /: a header line, then one line per snapshot
RECURSIVE SnapshotNames(_)
SnapshotNames(n) ==
    IF n = 0 THEN <<>>
    ELSE SnapshotNames(n - 1) \o SnapshotPrefix \o <<".">> \o Numeral(n) \o <<"\n">>

TmutilStdout(n) == <<"S", "n", "a", "p", "s", ":", "\n">> \o SnapshotNames(n)

TmutilResults ==
    {Completed(0, TmutilStdout(n)) : n \in 0..MaxSnapshots}
    \cup {Completed(0, <<>>), Completed(1, <<>>)}
    \cup {Raised(e) : e \in {"TimeoutExpired", "FileNotFoundError",
                             "PermissionError", "OSError", "KeyboardInterrupt"}}

\* lines 262-264: the snapshot lines found
SnapshotLines(result) ==
    IF result.returncode = 0 /\ Strip(result.stdout) # <<>>
    THEN SelectSeq(Split(Strip(result.stdout), "\n"),
                   LAMBDA line : StartsWith(line, SnapshotPrefix))
    ELSE <<>>

\* lines 255-271
SnapshotTry(result) ==
    IF result.kind = "raised"
    THEN (IF Caught(result.exc, SnapExcept) THEN Returns(<<>>) ELSE Raise(result.exc))
    ELSE Returns(SnapshotLines(result))

----------------------------------------------------------------------------
(* The run of the script *)

TopN == 10

Init ==
    /\ platform \in {"darwin", "linux"}
    /\ catalog \in Catalogs
    /\ path_exists \in (IF catalog = <<>> THEN {FALSE} ELSE BOOLEAN)
    /\ pc = "main"
    /\ idx = 1
    /\ du_result = NoDu
    /\ probe_ret = NoCall
    /\ locations = <<>>
    /\ rows = <<>>
    /\ total_size = -1
    /\ reported = FALSE
    /\ key = 1
    /\ subdir_lines = <<>>
    /\ snapshots = -1
    /\ exc = NoExc
    /\ exit_code = -1
    /\ notice = FALSE
    /\ interrupted = FALSE
    /\ probeLog = <<>>
    /\ scanLog = <<>>
    /\ root = NoRoot
    /\ min_size = 1
    /\ find_result = NoDu
    /\ large_dirs = <<>>

\* lines 116, 131-132, 222: the for loop takes the next entry or the scan returns
LoopTo(i) == IF i <= Len(catalog) THEN "probe" ELSE "render"

\* PlatformCheck printing the warning of line 218 without the exit of line 219
PlatformCheckNoExit ==
    /\ pc = "main"
    /\ pc' = LoopTo(1)
    /\ UNCHANGED <<platform, catalog, path_exists, idx, du_result, probe_ret,
                   locations, rows, total_size, reported, key, subdir_lines,
                   snapshots, exc, exit_code, notice, interrupted, probeLog, scanLog>>
    /\ UNCHANGED findVars

\* lines 209-222: the banner and the platform check
PlatformCheck ==
    /\ pc = "main"
    /\ IF platform # "darwin"
       THEN pc' = "toplevel" /\ exc' = "SystemExit"
       ELSE pc' = LoopTo(1) /\ exc' = exc
    /\ UNCHANGED <<platform, catalog, path_exists, idx, du_result, probe_ret,
                   locations, rows, total_size, reported, key, subdir_lines,
                   snapshots, exit_code, notice, interrupted, probeLog, scanLog>>
    /\ UNCHANGED findVars

\* lines 117-120, 33-35: get_directory_size is called and checks the path
ProbeExists ==
    /\ pc = "probe"
    /\ probeLog' = Append(probeLog, idx)
    /\ du_result' = NoDu
    /\ IF ~path_exists
       THEN probe_ret' = Return(0, FALSE) /\ pc' = "branch"
       ELSE probe_ret' = NoCall /\ pc' = "du"
    /\ UNCHANGED <<platform, catalog, path_exists, idx, locations, rows,
                   total_size, reported, key, subdir_lines, snapshots, exc,
                   exit_code, notice, interrupted, scanLog>>
    /\ UNCHANGED findVars

\* lines 38-51: du runs and get_directory_size returns or raises
DuRun ==
    /\ pc = "du"
    /\ \E result \in DuResults(catalog[idx].path_str) \cup {Raised("KeyboardInterrupt")} :
         LET out == GetDirectorySize(result) IN
         /\ du_result' = result
         /\ probe_ret' = out
         /\ interrupted' = (result = Raised("KeyboardInterrupt"))
         /\ IF out.kind = "raise"
            THEN pc' = "toplevel" /\ exc' = out.exc
            ELSE pc' = "branch" /\ exc' = exc
    /\ UNCHANGED <<platform, catalog, path_exists, idx, locations, rows,
                   total_size, reported, key, subdir_lines, snapshots,
                   exit_code, notice, probeLog, scanLog>>
    /\ UNCHANGED findVars

\* lines 122-129: what the caller appends for the entry
ScanRecord(entry, ret, exists) ==
    IF ret.success /\ ret.size_bytes > 0
    THEN <<Location(entry.path_str, entry.description, ret.size_bytes,
                    entry.requires_sudo)>>
    ELSE IF ~ret.success /\ exists
         THEN <<Location(entry.path_str, entry.description, 0, entry.requires_sudo)>>
    ELSE <<>>

\* lines 120-129: the caller takes the result and re-checks the path; the loop
\* moves on to the next entry, whose path may or may not exist
ScanBranch ==
    /\ pc = "branch"
    /\ locations' = locations \o ScanRecord(catalog[idx], probe_ret, path_exists)
    /\ scanLog' = Append(scanLog,
                         [entry      |-> idx,
                          du_invoked |-> du_result # NoDu,
                          success    |-> probe_ret.success,
                          size_bytes |-> probe_ret.size_bytes,
                          existed    |-> ~probe_ret.success /\ path_exists])
    /\ idx' = idx + 1
    /\ pc' = LoopTo(idx + 1)
    /\ IF idx + 1 <= Len(catalog) THEN path_exists' \in BOOLEAN
       ELSE path_exists' = FALSE
    /\ du_result' = NoDu
    /\ probe_ret' = NoCall
    /\ UNCHANGED <<platform, catalog, rows, total_size, reported, key,
                   subdir_lines, snapshots, exc, exit_code, notice, interrupted,
                   probeLog>>
    /\ UNCHANGED findVars

\* the filesystem changes under the probe: the path appears or disappears
FsChange ==
    /\ pc \in {"du", "branch"}
    /\ path_exists' = ~path_exists
    /\ UNCHANGED <<platform, catalog, pc, idx, du_result, probe_ret, locations,
                   rows, total_size, reported, key, subdir_lines, snapshots, exc,
                   exit_code, notice, interrupted, probeLog, scanLog>>
    /\ UNCHANGED findVars

\* lines 167-207: print_results_table on the list in locations
TableEffect ==
    /\ reported' = TRUE
    /\ IF locations = <<>>
       THEN UNCHANGED <<locations, rows, total_size>>
       ELSE /\ locations' = SortBySizeDesc(locations)
            /\ rows' = TableRows(locations')
            /\ total_size' = SumSizes(locations')

\* lines 225-228: the report of the scan
PrintResultsTable ==
    /\ pc = "render"
    /\ TableEffect
    /\ pc' = "subdirs"
    /\ key' = 1
    /\ UNCHANGED <<platform, catalog, path_exists, idx, du_result, probe_ret,
                   subdir_lines, snapshots, exc, exit_code, notice, interrupted,
                   probeLog, scanLog>>
    /\ UNCHANGED findVars

\* lines 245-250: the lines printed for one key location
SubdirLines(dirs) ==
    LET sorted == SortBySizeDesc(dirs) IN
    [i \in 1..Min(TopN, Len(sorted)) |->
        [dir_path |-> sorted[i].dir_path, size_gb |-> GbHundredths(sorted[i].size_bytes)]]

\* lines 240, 251: the loop over the key locations moves on
KeyTo(k) == IF k <= KeyLocations THEN "subdirs" ELSE "snapshots"

\* lines 240-251: one key location of the subdirectory scan
SubdirScan ==
    /\ pc = "subdirs"
    /\ \E rt \in KeyRoots :
         IF ~rt.exists
         THEN /\ pc' = KeyTo(key + 1)
              /\ key' = key + 1
              /\ UNCHANGED <<subdir_lines, exc, interrupted>>
         ELSE \E result \in FindResults(rt.tree, rt.path)
                            \cup {Raised("KeyboardInterrupt")} :
                LET out == FindLargeDirectories(rt, 1, result) IN
                /\ interrupted' = (result = Raised("KeyboardInterrupt"))
                /\ IF out.kind = "raise"
                   THEN /\ pc' = "toplevel" /\ exc' = out.exc
                        /\ UNCHANGED <<subdir_lines, key>>
                   ELSE /\ subdir_lines' = SubdirLines(out.value)
                        /\ pc' = KeyTo(key + 1)
                        /\ key' = key + 1
                        /\ exc' = exc
    /\ UNCHANGED <<platform, catalog, path_exists, idx, du_result, probe_ret,
                   locations, rows, total_size, reported, snapshots, exit_code,
                   notice, probeLog, scanLog>>
    /\ UNCHANGED findVars

\* lines 253-271: the snapshot check
SnapshotCheck ==
    /\ pc = "snapshots"
    /\ \E result \in TmutilResults :
         LET out == SnapshotTry(result) IN
         /\ interrupted' = (result = Raised("KeyboardInterrupt"))
         /\ IF out.kind = "raise"
            THEN pc' = "toplevel" /\ exc' = out.exc /\ UNCHANGED snapshots
            ELSE pc' = "tips" /\ exc' = exc /\ snapshots' = Len(out.value)
    /\ UNCHANGED <<platform, catalog, path_exists, idx, du_result, probe_ret,
                   locations, rows, total_size, reported, key, subdir_lines,
                   exit_code, notice, probeLog, scanLog>>
    /\ UNCHANGED findVars

\* lines 273-276, 280: the tips are printed, main returns, the script ends
MainReturn ==
    /\ pc = "tips"
    /\ pc' = "exited"
    /\ exit_code' = 0
    /\ UNCHANGED <<platform, catalog, path_exists, idx, du_result, probe_ret,
                   locations, rows, total_size, reported, key, subdir_lines,
                   snapshots, exc, notice, interrupted, probeLog, scanLog>>
    /\ UNCHANGED findVars

\* Ctrl-C while the script is outside every inner try block
Interrupt ==
    /\ pc \in {"main", "probe", "branch", "render", "tips"}
    /\ interrupted' = TRUE
    /\ exc' = "KeyboardInterrupt"
    /\ pc' = "toplevel"
    /\ UNCHANGED <<platform, catalog, path_exists, idx, du_result, probe_ret,
                   locations, rows, total_size, reported, key, subdir_lines,
                   snapshots, exit_code, notice, probeLog, scanLog>>
    /\ UNCHANGED findVars

\* lines 219, 279-289: what the exception that left main does to the process:
\* the except clauses in order, then SystemExit(1) ending the interpreter
TopLevelExit(e) ==
    IF IsSubclass(e, "KeyboardInterrupt") THEN [code |-> 1, notice |-> TRUE]
    ELSE IF IsSubclass(e, "Exception") THEN [code |-> 1, notice |-> FALSE]
    ELSE [code |-> 1, notice |-> FALSE]

TopLevel ==
    /\ pc = "toplevel"
    /\ exit_code' = TopLevelExit(exc).code
    /\ notice' = TopLevelExit(exc).notice
    /\ pc' = "exited"
    /\ UNCHANGED <<platform, catalog, path_exists, idx, du_result, probe_ret,
                   locations, rows, total_size, reported, key, subdir_lines,
                   snapshots, exc, interrupted, probeLog, scanLog>>
    /\ UNCHANGED findVars

Next ==
    \/ PlatformCheck
    \/ ProbeExists
    \/ DuRun
    \/ ScanBranch
    \/ FsChange
    \/ PrintResultsTable
    \/ SubdirScan
    \/ SnapshotCheck
    \/ MainReturn
    \/ Interrupt
    \/ TopLevel

Spec == Init /\ [][Next]_vars

----------------------------------------------------------------------------
(* print_results_table on its own, on lists with long and short paths *)

PathLens == {2, 59, 78, 79, 80, 81, 90}

\* a path of n characters whose characters differ from place to place
PathOfLen(n) == [k \in 1..n |-> IF k = 1 THEN "/" ELSE Letters[(k % 8) + 1]]

\* the lists of n records handed to print_results_table
TableInputs(n) ==
    {[i \in 1..n |-> Location(PathOfLen(lens[i]), <<Letters[i]>>,
                              kbs[i] * 1024, flags[i])]
     : lens \in [1..n -> PathLens], kbs \in [1..n -> 0..1],
       flags \in [1..n -> BOOLEAN]}

InitTable ==
    /\ platform = "darwin"
    /\ catalog = <<>>
    /\ path_exists = FALSE
    /\ pc = "table"
    /\ idx = 1
    /\ du_result = NoDu
    /\ probe_ret = NoCall
    /\ \E n \in 0..MaxRows : locations \in TableInputs(n)
    /\ rows = <<>>
    /\ total_size = -1
    /\ reported = FALSE
    /\ key = 1
    /\ subdir_lines = <<>>
    /\ snapshots = -1
    /\ exc = NoExc
    /\ exit_code = -1
    /\ notice = FALSE
    /\ interrupted = FALSE
    /\ probeLog = <<>>
    /\ scanLog = <<>>
    /\ root = NoRoot
    /\ min_size = 1
    /\ find_result = NoDu
    /\ large_dirs = <<>>

\* lines 167-207: one call of print_results_table
TableCall ==
    /\ pc = "table"
    /\ TableEffect
    /\ pc' = "table_done"
    /\ UNCHANGED <<platform, catalog, path_exists, idx, du_result, probe_ret,
                   key, subdir_lines, snapshots, exc, exit_code, notice,
                   interrupted, probeLog, scanLog>>
    /\ UNCHANGED findVars

NextTable == TableCall

SpecTable == InitTable /\ [][NextTable]_vars

----------------------------------------------------------------------------
(* find_large_directories on its own, on every tree of Trees *)

InitFind ==
    /\ platform = "darwin"
    /\ catalog = <<>>
    /\ path_exists = FALSE
    /\ pc = "find"
    /\ idx = 1
    /\ du_result = NoDu
    /\ probe_ret = NoCall
    /\ locations = <<>>
    /\ rows = <<>>
    /\ total_size = -1
    /\ reported = FALSE
    /\ key = 1
    /\ subdir_lines = <<>>
    /\ snapshots = -1
    /\ exc = NoExc
    /\ exit_code = -1
    /\ notice = FALSE
    /\ interrupted = FALSE
    /\ probeLog = <<>>
    /\ scanLog = <<>>
    /\ root \in Roots
    /\ min_size \in {1, 2}
    /\ find_result = NoDu
    /\ large_dirs = <<>>

\* lines 134-165: one call of find_large_directories(root, min_size / 2)
FindCall ==
    /\ pc = "find"
    /\ IF ~root.exists \/ ~root.is_dir
       THEN /\ large_dirs' = FindLargeDirectories(root, min_size, NoDu).value
            /\ UNCHANGED find_result
       ELSE \E result \in FindResults(root.tree, root.path) :
              /\ find_result' = result
              /\ large_dirs' = FindLargeDirectories(root, min_size, result).value
    /\ pc' = "find_done"
    /\ UNCHANGED <<platform, catalog, path_exists, idx, du_result, probe_ret,
                   locations, rows, total_size, reported, key, subdir_lines,
                   snapshots, exc, exit_code, notice, interrupted, probeLog,
                   scanLog, root, min_size>>

NextFind == FindCall

SpecFind == InitFind /\ [][NextFind]_vars

----------------------------------------------------------------------------
(* Properties *)

\* the catalog index of the entry row j of the table was made from
RowEntry(j) == EntryOf(locations[j].description)

\* the scan recorded something for catalog entry i
HasRecord(i) ==
    \E j \in 1..Len(locations) : locations[j].description = catalog[i].description

\* the entries of the scan whose probe succeeded or failed on an existing path
CountedEntries == {i \in 1..Len(scanLog) : scanLog[i].success \/ scanLog[i].existed}

\* C1: the report has one row per catalog entry whose probe succeeded (a
\* measured size of 0 bytes included) or failed on an existing path, and no row
\* for an entry whose path does not exist.
C1_RowsEqualProbes ==
    reported =>
        /\ Len(rows) = Cardinality(CountedEntries)
        /\ \A j \in 1..Len(rows) : RowEntry(j) \in CountedEntries

\* du ran for the current entry and was not cut short by Ctrl-C
DuAnswered == du_result # NoDu /\ du_result # Raised("KeyboardInterrupt")

\* du exited 0 and its output starts with an integer field
DuMeasured(kb) ==
    /\ du_result.kind = "completed"
    /\ du_result.returncode = 0
    /\ du_result.stdout = DuLine(kb, catalog[idx].path_str)

\* C2: when the path exists and du was run, get_directory_size never raises; it
\* returns (kilobytes * 1024, True) when du exits 0 with an integer leading
\* field and (0, False) on a timeout, a non-zero exit, empty or non-integer
\* output, or a permission / OS error.
C2_ProbeNeverRaises ==
    DuAnswered =>
        /\ probe_ret.kind = "return"
        /\ IF \E kb \in 0..MaxKB : DuMeasured(kb)
           THEN \E kb \in 0..MaxKB : DuMeasured(kb) /\ probe_ret = Return(kb * 1024, TRUE)
           ELSE probe_ret = Return(0, FALSE)

\* C3: whatever the probes of earlier entries did, a run that was not
\* interrupted probes every catalog entry exactly once, in catalog order, and
\* reaches the report.
C3_FailuresIsolated ==
    (pc = "exited" /\ platform = "darwin" /\ ~interrupted) =>
        /\ probeLog = [i \in 1..Len(catalog) |-> i]
        /\ reported

\* the path column width of the table: the longest path plus 2, kept within 60..80
ColumnWidth ==
    LET longest == MaxOf([i \in 1..Len(locations) |-> Len(locations[i].path_str)])
    IN  IF longest + 2 < 60 THEN 60 ELSE IF longest + 2 > 80 THEN 80 ELSE longest + 2

\* C4 as stated: a path longer than the path column width is printed as "..."
\* and its final characters, the column width long in all; a shorter one as is.
C4_TruncatedToColumnWidth ==
    \A j \in 1..Len(rows) :
        LET path == locations[j].path_str
            shown == rows[j].display_path
        IN  IF Len(path) > ColumnWidth
            THEN /\ Len(shown) = ColumnWidth
                 /\ shown = <<".", ".", ".">> \o LastChars(path, ColumnWidth - 3)
            ELSE shown = path

\* C4 amended: a path longer than the path column width less 2 is printed as
\* "..." and its final (width - 5) characters, (width - 2) characters in all;
\* every other path is printed as is; the printed cell is the column width long.
C4_TruncatedToWidthLessTwo ==
    \A j \in 1..Len(rows) :
        LET path == locations[j].path_str
            shown == rows[j].display_path
        IN  /\ IF Len(path) > ColumnWidth - 2
               THEN /\ Len(shown) = ColumnWidth - 2
                    /\ shown = <<".", ".", ".">> \o LastChars(path, ColumnWidth - 5)
               ELSE shown = path
            /\ Len(rows[j].path_cell) = ColumnWidth
            /\ SubSeq(rows[j].path_cell, 1, Len(shown)) = shown

C4_Witness ==
    /\ pc = "table_done"
    /\ \E j, k \in 1..Len(rows) :
         /\ Len(locations[j].path_str) > ColumnWidth
         /\ Len(locations[k].path_str) = ColumnWidth - 1
         /\ rows[j].display_path # locations[j].path_str

\* the immediate subdirectories of the root that measure at least min_size / 2 GB
LargeSubdirs ==
    {JoinPath(root.path, root.tree[i].rel) :
        i \in {n \in 1..Len(root.tree) :
                 /\ Len(root.tree[n].rel) = 1
                 /\ root.tree[n].type = "d"
                 /\ DuSk(root.tree, root.tree[n].rel) * 2 >= min_size * (1024 * 1024)}}

\* C5: when find exits 0, find_large_directories returns exactly the immediate
\* subdirectories of the root that measure at least minSizeGB: never the root
\* itself, never a deeper directory, and every qualifying subdirectory.
C5_ExactlyImmediateSubdirs ==
    (pc = "find_done" /\ find_result = Completed(0, FindStdout(root.tree, root.tree, root.path))) =>
        {large_dirs[i].dir_path : i \in 1..Len(large_dirs)} = LargeSubdirs

\* C6: an entry whose probe failed and whose path exists is recorded with 0
\* bytes; a row shows "sudo needed" exactly when its entry is flagged for
\* elevated access and its size is 0, and "user access" otherwise.
C6_PermissionDeniedRecord ==
    /\ \A i \in 1..Len(scanLog) :
         (~scanLog[i].success /\ scanLog[i].existed) =>
            \E j \in 1..Len(locations) :
                locations[j] = Location(catalog[i].path_str, catalog[i].description,
                                        0, catalog[i].requires_sudo)
    /\ \A j \in 1..Len(rows) :
         rows[j].perm_text =
            IF catalog[RowEntry(j)].requires_sudo /\ rows[j].size_bytes = 0
            THEN "sudo needed" ELSE "user access"

C6_Witness ==
    /\ reported
    /\ \E i \in 1..Len(scanLog) : scanLog[i].du_invoked /\ scanLog[i].existed
    /\ \E j, k \in 1..Len(rows) :
         /\ rows[j].size_bytes = 0 /\ rows[j].perm_text = "sudo needed"
         /\ rows[k].size_bytes = 0 /\ rows[k].perm_text = "user access"

\* C7: the rows are in non-increasing order of size, and rows of equal size
\* are in the order of their entries in the catalog.
C7_SortedStable ==
    \A j, k \in 1..Len(rows) :
        j < k =>
            /\ rows[j].size_bytes >= rows[k].size_bytes
            /\ rows[j].size_bytes = rows[k].size_bytes => RowEntry(j) < RowEntry(k)

C7_Witness ==
    /\ reported
    /\ \E j, k \in 1..Len(rows) :
         j < k /\ RowEntry(j) > RowEntry(k) /\ rows[j].size_bytes > rows[k].size_bytes

\* what a run has probed and printed
Output == <<probeLog, scanLog, locations, rows, total_size, reported, key,
            subdir_lines, snapshots>>

\* C8: a Ctrl-C at any point of the run is swallowed by no inner handler: it
\* reaches the top level, the notice is printed and the process exits with
\* status 1, and nothing is probed or reported after it; a run that ends
\* without an interruption or an error exits with status 0.
C8_InterruptReachesTopLevel ==
    /\ [](interrupted => /\ pc \in {"toplevel", "exited"}
                         /\ exc = "KeyboardInterrupt"
                         /\ pc = "exited" => (exit_code = 1 /\ notice))
    /\ []((pc = "exited" /\ exc = NoExc) => (exit_code = 0 /\ ~notice))
    /\ [][interrupted => UNCHANGED Output]_vars

C8_Witness ==
    /\ pc = "exited"
    /\ du_result = Raised("KeyboardInterrupt")
    /\ notice
    /\ exit_code = 1

\* C9: on a platform other than darwin the run ends with exit code 1 before
\* any scanning: no probe, no subdirectory scan, no snapshot query, no table.
C9_UnsupportedPlatformExits ==
    platform # "darwin" =>
        /\ pc \in {"main", "toplevel", "exited"}
        /\ pc = "exited" => exit_code = 1
        /\ probeLog = <<>> /\ scanLog = <<>> /\ locations = <<>>
        /\ ~reported /\ rows = <<>>
        /\ key = 1 /\ subdir_lines = <<>>
        /\ snapshots = -1

C9_Witness ==
    platform = "linux" /\ pc = "exited" /\ exc = "SystemExit" /\ exit_code = 1

\* C10: whatever the filesystem does during the scan, an entry has a zero-size
\* record only if du was invoked for it and failed, and an entry whose path was
\* absent when the probe checked it (du never invoked) has no record.
C10_DeniedOnlyAfterDuFailed ==
    \A i \in 1..Len(scanLog) :
        /\ ~scanLog[i].du_invoked => ~HasRecord(i)
        /\ (\E j \in 1..Len(locations) :
               /\ locations[j].description = catalog[i].description
               /\ locations[j].size_bytes = 0)
           => (scanLog[i].du_invoked /\ ~scanLog[i].success)

====
